---- MODULE Spec2Model ----
(***************************************************************************)
(* Governor registry, power index, eligibility gate and top-N scan of the  *)
(* x/gov keeper (x/gov/keeper/governor.go).                                *)
(*                                                                         *)
(* Addresses are small naturals whose numeric order is the byte order of   *)
(* the address; voting power and token amounts are whole numbers. Staking  *)
(* shares are sdk.Dec values of 18 decimal places: a Dec is the big        *)
(* integer of its 10^-18 units, kept as the sequence of that integer's     *)
(* base-1000 digits, most significant first. Quo rounds its quotient to 18 *)
(* places (half to even) before TruncateInt truncates it.                  *)
(***************************************************************************)
EXTENDS Naturals, Integers, Sequences, FiniteSets, TLC

\* ------------------------------------------------------------------ bounds
MaxPower == 2
MaxRawPower == 1
MaxMaxGovernors == 2
MaxShares == 2
MaxTokens == 1
MaxDelShares == 2
MaxCount == 1
MaxDeduction == 1
MaxWholeShares == 3

Addrs == {1, 2, 3}
RawAddrs == {1, 2}
Vals == {1, 2}
NoAddr == 0
Powers == 0 .. MaxPower
RawPowers == 0 .. MaxRawPower

\* MinGovernorSelfDelegation is a string; the model keeps it as a sequence
\* of characters. "0x1" is 1 in base 16, "08" is no number (8 is no octal
\* digit).
MinStrings ==
    {<<"0">>, <<"1">>, <<"2">>, <<"x">>, <<>>, <<"0", "x", "1">>, <<"0", "8">>}

VARIABLES
    governors,       \* store, GovernorKey(addr) -> Governor (partial function)
    powerIndex,      \* store, GovernorsByPowerKey(addr, power) -> addr
    govDelegations,  \* delegator account -> governor address (partial)
    delegations,     \* staking: account -> validator -> shares (0: none)
    validators,      \* staking: validator -> record (partial function)
    params,          \* MaxGovernors, MinGovernorSelfDelegation
    valShares,       \* share ledger: governor -> validator -> shares
    valSharesDeductions, \* proposal-scoped: governor -> validator -> shares
    votes,           \* governor -> weighted vote (partial: absent, no vote)
    proposals,       \* store, proposal id -> Proposal (partial function)
    exclusive,       \* whether the host gives each execution exclusive access
    running,         \* executions of UpdateGovernorByPowerIndex in flight
    ret              \* what the last call was and what it returned

vars == <<governors, powerIndex, govDelegations, delegations, validators, params,
          valShares, valSharesDeductions, votes, proposals, exclusive, running, ret>>
store == <<governors, powerIndex>>
env == <<govDelegations, delegations, validators, params,
         valShares, valSharesDeductions, votes, proposals>>
host == <<exclusive, running>>

\* ---------------------------------------------------------------- governors
Statuses == {"Active", "Inactive"}

Governor(a, s, p) == [address |-> a, status |-> s, votingPower |-> p]

\* v1.Governor{}: the zero value GetGovernor returns when nothing is stored
EmptyGovernor == Governor(NoAddr, "Unspecified", 0)

GovernorInputs(as, ps) == {Governor(a, s, p) : a \in as, s \in Statuses, p \in ps}

IsActive(g) == g.status = "Active"

\* GetGovernor reporting a record for every address
GetGovernorAlwaysFound(addr) ==
    IF addr \in DOMAIN governors
    THEN <<governors[addr], TRUE>>
    ELSE <<EmptyGovernor, TRUE>>

\* GetGovernor: <<governor, found>>
GetGovernor(addr) ==
    IF addr \in DOMAIN governors
    THEN <<governors[addr], TRUE>>
    ELSE <<EmptyGovernor, FALSE>>

\* store.Set / store.Delete on a map kept as a function
StoreSet(m, k, v) == [x \in (DOMAIN m) \cup {k} |-> IF x = k THEN v ELSE m[x]]
StoreDelete(m, k) == [x \in (DOMAIN m) \ {k} |-> m[x]]

\* the (power, address) composite key of the power index
GovernorsByPowerKey(addr, power) == <<power, addr>>

\* SetGovernor writing only where the address has no record yet
SetGovernorStoreIfAbsent(gs, g) ==
    IF g.address \in DOMAIN gs THEN gs ELSE StoreSet(gs, g.address, g)

\* SetGovernor: the record marshalled under GovernorKey(governor address)
SetGovernorStore(gs, g) == StoreSet(gs, g.address, g)

SetGovernorByPowerIndexStore(idx, g) ==
    StoreSet(idx, GovernorsByPowerKey(g.address, g.votingPower), g.address)

\* DeleteGovernorByPowerIndex deleting nothing
DeleteGovernorByPowerIndexStoreNothing(idx, g) == idx

DeleteGovernorByPowerIndexStore(idx, g) ==
    StoreDelete(idx, GovernorsByPowerKey(g.address, g.votingPower))

\* UpdateGovernorByPowerIndex without the delete of the old entry
UpdatedPowerIndexNoDelete(idx, g) == SetGovernorByPowerIndexStore(idx, g)

\* UpdateGovernorByPowerIndex installing the entry of the record it read
UpdatedPowerIndexOldPower(idx, g) ==
    LET oldGovernor == GetGovernor(g.address)[1]
    IN  SetGovernorByPowerIndexStore(DeleteGovernorByPowerIndexStore(idx, oldGovernor),
                                     oldGovernor)

\* UpdateGovernorByPowerIndex touching the index only where a record was found
UpdatedPowerIndexFoundOnly(idx, g) ==
    LET oldGovernor == GetGovernor(g.address)
    IN  IF oldGovernor[2]
        THEN SetGovernorByPowerIndexStore(
                 DeleteGovernorByPowerIndexStore(idx, oldGovernor[1]), g)
        ELSE idx

\* UpdateGovernorByPowerIndex: the index after delete-old, set-new
UpdatedPowerIndex(idx, g) ==
    LET oldGovernor == GetGovernor(g.address)[1]
    IN  SetGovernorByPowerIndexStore(DeleteGovernorByPowerIndexStore(idx, oldGovernor), g)

\* ------------------------------------------------------------ staking oracle
\* the ascending sequence of a finite set of naturals (store iteration order)
RECURSIVE Ascending(_)
Ascending(S) ==
    IF S = {} THEN <<>>
    ELSE LET m == CHOOSE x \in S : \A y \in S : x <= y
         IN  <<m>> \o Ascending(S \ {m})

\* sk.IterateDelegations: the validators the account has a delegation with
DelegationsOf(addr) ==
    IF addr \in DOMAIN delegations
    THEN Ascending({v \in Vals : delegations[addr][v] # <<>>})
    ELSE <<>>

\* ---- big.Int: a natural number as the sequence of its base-LimbBase
\* digits, most significant first, with no leading zero; zero is <<>>
LimbBase == 1000
LimbDigits == 3

Front(s) == SubSeq(s, 1, Len(s) - 1)
Zeros(k) == [j \in 1 .. k |-> 0]

\* s without its leading zero digits
BigNorm(s) ==
    IF s = <<>> \/ s[1] # 0 THEN s
    ELSE IF s = Zeros(Len(s)) THEN <<>>
    ELSE LET first == CHOOSE i \in 1 .. Len(s) :
                          s[i] # 0 /\ \A j \in 1 .. i - 1 : s[j] = 0
         IN  SubSeq(s, first, Len(s))

RECURSIVE BigOfInt(_)
BigOfInt(n) == IF n = 0 THEN <<>> ELSE Append(BigOfInt(n \div LimbBase), n % LimbBase)

RECURSIVE BigToInt(_)
BigToInt(s) == IF s = <<>> THEN 0 ELSE BigToInt(Front(s)) * LimbBase + s[Len(s)]

\* s * m + carry, for small naturals m and carry
RECURSIVE BigMulCarry(_, _, _)
BigMulCarry(s, m, carry) ==
    IF s = <<>> THEN BigOfInt(carry)
    ELSE LET t == s[Len(s)] * m + carry
         IN  Append(BigMulCarry(Front(s), m, t \div LimbBase), t % LimbBase)

\* s * m: digit by digit where no digit carries
BigMulSmall(s, m) ==
    IF m = 0 \/ s = <<>> THEN <<>>
    ELSE IF m = 1 THEN s
    ELSE IF \A i \in 1 .. Len(s) : s[i] * m < LimbBase THEN [i \in 1 .. Len(s) |-> s[i] * m]
    ELSE BigNorm(BigMulCarry(s, m, 0))
BigAddSmall(s, a) == BigMulCarry(s, 1, a)

\* s * LimbBase^k
BigShift(s, k) == IF s = <<>> THEN <<>> ELSE s \o Zeros(k)

BigLess(a, b) ==
    \/ Len(a) < Len(b)
    \/ /\ Len(a) = Len(b)
       /\ \E i \in 1 .. Len(a) : a[i] < b[i] /\ \A j \in 1 .. i - 1 : a[j] = b[j]

BigLeq(a, b) == a = b \/ BigLess(a, b)

\* a - b - borrow on sequences of one length
RECURSIVE BigSubBorrow(_, _, _)
BigSubBorrow(a, b, borrow) ==
    IF a = <<>> THEN <<>>
    ELSE LET t == a[Len(a)] - b[Len(b)] - borrow
         IN  Append(BigSubBorrow(Front(a), Front(b), IF t < 0 THEN 1 ELSE 0),
                    IF t < 0 THEN t + LimbBase ELSE t)

\* a - b, for a >= b
BigSub(a, b) == BigNorm(BigSubBorrow(a, Zeros(Len(a) - Len(b)) \o b, 0))

\* the largest digit q of lo .. hi with b * q <= r, b * lo <= r given
RECURSIVE QuoDigit(_, _, _, _)
QuoDigit(r, b, lo, hi) ==
    IF lo = hi THEN lo
    ELSE LET mid == (lo + hi + 1) \div 2
         IN  IF BigLeq(BigMulSmall(b, mid), r)
             THEN QuoDigit(r, b, mid, hi) ELSE QuoDigit(r, b, lo, mid - 1)

\* long division: a the digits of the dividend still to bring down, r the
\* remainder and q the quotient so far
RECURSIVE BigDivLoop(_, _, _, _)
BigDivLoop(a, b, r, q) ==
    IF a = <<>> THEN BigNorm(q)
    ELSE LET r1 == BigNorm(Append(r, Head(a)))
             d == IF BigLess(r1, b) THEN 0 ELSE QuoDigit(r1, b, 1, LimbBase - 1)
             r2 == IF d = 0 THEN r1 ELSE BigSub(r1, BigMulSmall(b, d))
         IN  BigDivLoop(Tail(a), b, r2, Append(q, d))

\* short division by a one-digit divisor m: rem is the remainder so far.
\* Dividing by one leaves the digits as they are. With only zeros left to bring down and a remainder that a step gives back
\* (zero among them), every further digit of the quotient is the same.
RECURSIVE BigDivSmallLoop(_, _, _, _)
BigDivSmallLoop(a, m, rem, q) ==
    IF a = <<>> THEN BigNorm(q)
    ELSE IF m = 1 THEN BigNorm(q \o a)
    ELSE IF (rem * LimbBase) % m = rem /\ a = Zeros(Len(a))
    THEN BigNorm(q \o [j \in 1 .. Len(a) |-> (rem * LimbBase) \div m])
    ELSE LET t == rem * LimbBase + Head(a)
         IN  BigDivSmallLoop(Tail(a), m, t % m, Append(q, t \div m))

\* big.Int.Quo for naturals, b # 0: the truncated quotient. Dividing by a
\* digit m followed by k zeros is dividing a without its last k digits by m.
BigQuo(a, b) ==
    IF BigLess(a, b) THEN <<>>
    ELSE IF Tail(b) = Zeros(Len(b) - 1)
    THEN BigDivSmallLoop(SubSeq(a, 1, Len(a) - Len(b) + 1), b[1], 0, <<>>)
    ELSE BigDivLoop(a, b, <<>>, <<>>)

\* ---- sdk.Dec: a decimal of Precision places, kept as the big.Int of its
\* 10^-Precision units (the Decs of this model are not negative)
Precision == 18
PrecisionLimbs == Precision \div LimbDigits
precisionReuse == BigShift(<<1>>, PrecisionLimbs)
fivePrecision == BigShift(<<LimbBase \div 2>>, PrecisionLimbs - 1)

\* sdk.NewDec(n): the whole number n
NewDec(n) ==
    IF n = 0 THEN <<>>
    ELSE IF n < LimbBase THEN <<n>> \o Zeros(PrecisionLimbs)
    ELSE BigShift(BigOfInt(n), PrecisionLimbs)

\* d.QuoRem(d, precisionReuse): precisionReuse being LimbBase^PrecisionLimbs,
\* the quotient is d without its last PrecisionLimbs digits and the
\* remainder these digits
QuoRemPrecision(d) ==
    IF Len(d) <= PrecisionLimbs THEN [quo |-> <<>>, rem |-> d]
    ELSE [quo |-> SubSeq(d, 1, Len(d) - PrecisionLimbs),
          rem |-> BigNorm(SubSeq(d, Len(d) - PrecisionLimbs + 1, Len(d)))]

\* the whole units of a number of 2 * Precision places, rounded half to even
chopPrecisionAndRound(d) ==
    LET qr == QuoRemPrecision(d)
        quo == qr.quo
        rem == qr.rem
    IN  IF rem = <<>> \/ BigLess(rem, fivePrecision) THEN quo
        ELSE IF BigLess(fivePrecision, rem) THEN BigAddSmall(quo, 1)
        ELSE IF quo = <<>> \/ quo[Len(quo)] % 2 = 0 THEN quo
        ELSE BigAddSmall(quo, 1)

\* the integer part of a Dec, truncated
chopPrecisionAndTruncate(d) ==
    IF Len(d) <= PrecisionLimbs THEN <<>> ELSE SubSeq(d, 1, Len(d) - PrecisionLimbs)

\* Dec.MulInt: the product of a Dec and an Int, exact
MulInt(d, i) == BigMulSmall(d, i)

\* Dec.Quo: d * precisionReuse^2 divided by d2, truncated, the quotient then
\* rounded to Precision places (d2 # 0)
Quo(d, d2) == chopPrecisionAndRound(BigQuo(BigShift(d, 2 * PrecisionLimbs), d2))

\* Dec.TruncateInt: the integer part as an Int
DecTruncateInt(d) == BigToInt(chopPrecisionAndTruncate(d))

\* shares.MulInt(validator.GetBondedTokens()).Quo(validator.GetDelegatorShares())
\* .TruncateInt(); sk.GetValidator of an unknown validator gives the zero
\* Validator, whose DelegatorShares is a nil Dec, and Quo by it (as by a
\* zero Dec) panics.
DelegationTokens(shares, v) ==
    IF v \notin DOMAIN validators \/ validators[v].delegatorShares = <<>>
    THEN [ok |-> FALSE, tokens |-> 0]
    ELSE [ok |-> TRUE,
          tokens |-> DecTruncateInt(
                         Quo(MulInt(shares, validators[v].bondedTokens),
                             validators[v].delegatorShares))]

\* the callback loop of getGovernorBondedTokens over the delegations ds,
\* bondedTokens being the running total
RECURSIVE SumBondedTokens(_, _, _)
SumBondedTokens(addr, ds, bondedTokens) ==
    IF ds = <<>> THEN [ok |-> TRUE, tokens |-> bondedTokens]
    ELSE LET bt == DelegationTokens(delegations[addr][Head(ds)], Head(ds))
         IN  IF ~bt.ok THEN [ok |-> FALSE, tokens |-> 0]
             ELSE SumBondedTokens(addr, Tail(ds), bondedTokens + bt.tokens)

\* getGovernorBondedTokens: [ok |-> FALSE] stands for a panic
getGovernorBondedTokens(addr) == SumBondedTokens(addr, DelegationsOf(addr), 0)

\* ------------------------------------------------------------- eligibility
\* the letters of a number, in the order of their digit values 10, 11, ...
Letters ==
    <<"a", "b", "c", "d", "e", "f", "g", "h", "i", "j", "k", "l", "m",
      "n", "o", "p", "q", "r", "s", "t", "u", "v", "w", "x", "y", "z">>
CapitalLetters ==
    <<"A", "B", "C", "D", "E", "F", "G", "H", "I", "J", "K", "L", "M",
      "N", "O", "P", "Q", "R", "S", "T", "U", "V", "W", "X", "Y", "Z">>
Digits == <<"0", "1", "2", "3", "4", "5", "6", "7", "8", "9">>

\* the largest base of a number, and the widest Int
MaxBase == 62
MaxBitLen == 256

\* the digit value of a character: 0..9, a..z and A..Z from 10, and
\* MaxBase + 1 for every other character
DigitValue(c) ==
    IF \E n \in 1 .. 10 : Digits[n] = c
    THEN (CHOOSE n \in 1 .. 10 : Digits[n] = c) - 1
    ELSE IF \E n \in 1 .. 26 : Letters[n] = c
    THEN (CHOOSE n \in 1 .. 26 : Letters[n] = c) + 9
    ELSE IF \E n \in 1 .. 26 : CapitalLetters[n] = c
    THEN (CHOOSE n \in 1 .. 26 : CapitalLetters[n] = c) + 9
    ELSE MaxBase + 1

\* the digit loop of a number in base b from position i of s: it ends at the
\* end of s or at the first character that is no digit of the base and no "_";
\* prev is "." before the number, "0" after a digit and "_" after a separator
RECURSIVE DigitsValue(_, _, _, _, _, _, _)
DigitsValue(s, i, b, prev, count, invalSep, acc) ==
    IF i > Len(s)
    THEN [next |-> i, prev |-> prev, count |-> count, invalSep |-> invalSep,
          value |-> acc]
    ELSE IF s[i] = "_"
    THEN DigitsValue(s, i + 1, b, "_", count, invalSep \/ prev # "0", acc)
    ELSE IF DigitValue(s[i]) >= b
    THEN [next |-> i, prev |-> prev, count |-> count, invalSep |-> invalSep,
          value |-> acc]
    ELSE DigitsValue(s, i + 1, b, "0", count + 1, invalSep, b * acc + DigitValue(s[i]))

\* the unsigned number at the head of s read with base 0: the prefixes 0b, 0o
\* and 0x choose base 2, 8 and 16, a leading 0 before anything else base 8,
\* and "_" may separate digits
NatScan(s) ==
    LET zero == s # <<>> /\ Head(s) = "0"
        prefix == IF ~(zero /\ Len(s) >= 2) THEN ""
                  ELSE IF s[2] \in {"b", "B"} THEN "b"
                  ELSE IF s[2] \in {"o", "O"} THEN "o"
                  ELSE IF s[2] \in {"x", "X"} THEN "x"
                  ELSE "0"
        b == CASE prefix = "" -> 10 [] prefix = "b" -> 2 [] prefix = "o" -> 8
               [] prefix = "x" -> 16 [] prefix = "0" -> 8
        scan == IF ~zero THEN DigitsValue(s, 1, b, ".", 0, FALSE, 0)
                ELSE IF prefix = "" THEN DigitsValue(s, 2, b, "0", 1, FALSE, 0)
                ELSE IF prefix = "0" THEN DigitsValue(s, 2, b, "0", 0, FALSE, 0)
                ELSE DigitsValue(s, 3, b, "0", 0, FALSE, 0)
    IN  [ok |-> /\ ~(scan.invalSep \/ scan.prev = "_")
                /\ scan.count > 0 \/ prefix = "0",
         next |-> scan.next,
         value |-> scan.value]

\* the number of bits of a natural number
RECURSIVE BitLen(_)
BitLen(n) == IF n = 0 THEN 0 ELSE 1 + BitLen(n \div 2)

\* math.NewIntFromString: <<value, ok>> as a record; the whole string has to
\* be one number of at most MaxBitLen bits, and a failed parse leaves the zero
\* Int, whose big.Int is nil
NewIntFromString(s) ==
    LET signed == s # <<>> /\ Head(s) \in {"-", "+"}
        body == IF signed THEN Tail(s) ELSE s
        abs == NatScan(body)
    IN  IF ~abs.ok \/ abs.next <= Len(body) \/ BitLen(abs.value) > MaxBitLen
        THEN [ok |-> FALSE, value |-> 0]
        ELSE [ok |-> TRUE,
              value |-> IF signed /\ Head(s) = "-" THEN 0 - abs.value ELSE abs.value]

\* GetGovernanceDelegation(delAddr): <<delegation, found>>
GetGovernanceDelegation(delAddr) ==
    IF delAddr \in DOMAIN govDelegations
    THEN <<[governorAddress |-> govDelegations[delAddr]], TRUE>>
    ELSE <<[governorAddress |-> NoAddr], FALSE>>

\* the validation returning false where the self-delegation is missing
ValidateWithoutSelfDelegationPanic(governor) ==
    LET minGovernorSelfDelegation == NewIntFromString(params.MinGovernorSelfDelegation)
        bondedTokens == getGovernorBondedTokens(governor.address)
        del == GetGovernanceDelegation(governor.address)
    IN  IF ~bondedTokens.ok THEN "panic"
        ELSE IF ~IsActive(governor) THEN "false"
        ELSE IF ~del[2] \/ governor.address # del[1].governorAddress THEN "false"
        ELSE IF ~minGovernorSelfDelegation.ok THEN "panic"
        ELSE IF bondedTokens.tokens < minGovernorSelfDelegation.value THEN "false"
        ELSE "true"

\* the validation with the threshold itself not eligible (LTE for LT)
ValidateStrictlyAboveMinimum(governor) ==
    LET minGovernorSelfDelegation == NewIntFromString(params.MinGovernorSelfDelegation)
        bondedTokens == getGovernorBondedTokens(governor.address)
        del == GetGovernanceDelegation(governor.address)
    IN  IF ~bondedTokens.ok THEN "panic"
        ELSE IF ~IsActive(governor) THEN "false"
        ELSE IF ~del[2] \/ governor.address # del[1].governorAddress THEN "panic"
        ELSE IF ~minGovernorSelfDelegation.ok THEN "panic"
        ELSE IF bondedTokens.tokens <= minGovernorSelfDelegation.value THEN "false"
        ELSE "true"

\* the validation comparing against zero where the threshold does not parse
ValidateWithDefaultedThreshold(governor) ==
    LET minGovernorSelfDelegation == NewIntFromString(params.MinGovernorSelfDelegation)
        bondedTokens == getGovernorBondedTokens(governor.address)
        del == GetGovernanceDelegation(governor.address)
    IN  IF ~bondedTokens.ok THEN "panic"
        ELSE IF ~IsActive(governor) THEN "false"
        ELSE IF ~del[2] \/ governor.address # del[1].governorAddress THEN "panic"
        ELSE IF bondedTokens.tokens < minGovernorSelfDelegation.value THEN "false"
        ELSE "true"

\* ValidateGovernorMinSelfDelegation: "true", "false", or "panic"
ValidateGovernorMinSelfDelegation(governor) ==
    LET minGovernorSelfDelegation == NewIntFromString(params.MinGovernorSelfDelegation)
        bondedTokens == getGovernorBondedTokens(governor.address)
        delAddr == governor.address
        del == GetGovernanceDelegation(delAddr)
    IN  IF ~bondedTokens.ok THEN "panic"
        ELSE IF ~IsActive(governor) THEN "false"
        ELSE IF ~del[2] \/ governor.address # del[1].governorAddress THEN "panic"
        ELSE IF ~minGovernorSelfDelegation.ok THEN "panic"
        ELSE IF bondedTokens.tokens < minGovernorSelfDelegation.value THEN "false"
        ELSE "true"

\* ------------------------------------------------------------ top-N scan
\* the key order with the address tie-break the other way round
KeyLessTiesReversed(k1, k2) == k1[1] < k2[1] \/ (k1[1] = k2[1] /\ k1[2] > k2[2])

KeyLess(k1, k2) == k1[1] < k2[1] \/ (k1[1] = k2[1] /\ k1[2] < k2[2])

\* KVStorePrefixIterator in place of the reverse iterator: smallest key first
RECURSIVE AscendingKeys(_)
AscendingKeys(K) ==
    IF K = {} THEN <<>>
    ELSE LET m == CHOOSE x \in K : \A y \in K : y = x \/ KeyLess(x, y)
         IN  <<m>> \o AscendingKeys(K \ {m})

\* KVStoreReversePrefixIterator: the keys of the index, largest first
RECURSIVE Descending(_)
Descending(K) ==
    IF K = {} THEN <<>>
    ELSE LET m == CHOOSE x \in K : \A y \in K : y = x \/ KeyLess(y, x)
         IN  <<m>> \o Descending(K \ {m})

\* the callback of a scan: it asks to stop when called with index stopAt
NoStop == 0 - 1
Callback(stopAt, index, governor) == index = stopAt

\* the scan's test without the minimum self-delegation check
EligibleWithoutValidation(governor) ==
    IF IsActive(governor) THEN "true" ELSE "false"

\* governor.IsActive() && k.ValidateGovernorMinSelfDelegation(ctx, governor):
\* "true", "false", or "panic"
Eligible(governor) ==
    IF IsActive(governor) THEN ValidateGovernorMinSelfDelegation(governor) ELSE "false"

\* the loop taking a slot for every governor it scans, skipped ones included
RECURSIVE ScanCountingSkipped(_, _, _, _, _)
ScanCountingSkipped(keys, i, totGovernors, yielded, stopAt) ==
    IF ~(i <= Len(keys) /\ totGovernors <= params.MaxGovernors)
    THEN [yielded |-> yielded, outcome |-> "done"]
    ELSE LET governorAddr == powerIndex[keys[i]]
             governor == GetGovernor(governorAddr)[1]
             valid == Eligible(governor)
         IN  IF valid = "panic"
             THEN [yielded |-> yielded, outcome |-> "panic"]
             ELSE IF valid = "true"
             THEN LET out == Append(yielded, [index |-> totGovernors, governor |-> governor])
                  IN  IF Callback(stopAt, totGovernors, governor)
                      THEN [yielded |-> out, outcome |-> "stopped"]
                      ELSE ScanCountingSkipped(keys, i + 1, totGovernors + 1, out, stopAt)
             ELSE ScanCountingSkipped(keys, i + 1, totGovernors + 1, yielded, stopAt)

\* the loop aborting on an index entry whose address has no stored record
RECURSIVE ScanAbortingOnMissing(_, _, _, _, _)
ScanAbortingOnMissing(keys, i, totGovernors, yielded, stopAt) ==
    IF ~(i <= Len(keys) /\ totGovernors <= params.MaxGovernors)
    THEN [yielded |-> yielded, outcome |-> "done"]
    ELSE LET governorAddr == powerIndex[keys[i]]
             found == GetGovernor(governorAddr)[2]
             governor == GetGovernor(governorAddr)[1]
             valid == IF found THEN Eligible(governor) ELSE "panic"
         IN  IF valid = "panic"
             THEN [yielded |-> yielded, outcome |-> "panic"]
             ELSE IF valid = "true"
             THEN LET out == Append(yielded, [index |-> totGovernors, governor |-> governor])
                  IN  IF Callback(stopAt, totGovernors, governor)
                      THEN [yielded |-> out, outcome |-> "stopped"]
                      ELSE ScanAbortingOnMissing(keys, i + 1, totGovernors + 1, out, stopAt)
             ELSE ScanAbortingOnMissing(keys, i + 1, totGovernors, yielded, stopAt)

\* the loop of IterateMaxGovernorsByGovernancePower from position i of the
\* key sequence, totGovernors governors yielded so far
RECURSIVE ScanMaxGovernors(_, _, _, _, _)
ScanMaxGovernors(keys, i, totGovernors, yielded, stopAt) ==
    IF ~(i <= Len(keys) /\ totGovernors <= params.MaxGovernors)
    THEN [yielded |-> yielded, outcome |-> "done"]
    ELSE LET governorAddr == powerIndex[keys[i]]
             governor == GetGovernor(governorAddr)[1]
             valid == Eligible(governor)
         IN  IF valid = "panic"
             THEN [yielded |-> yielded, outcome |-> "panic"]
             ELSE IF valid = "true"
             THEN LET out == Append(yielded, [index |-> totGovernors, governor |-> governor])
                  IN  IF Callback(stopAt, totGovernors, governor)
                      THEN [yielded |-> out, outcome |-> "stopped"]
                      ELSE ScanMaxGovernors(keys, i + 1, totGovernors + 1, out, stopAt)
             ELSE ScanMaxGovernors(keys, i + 1, totGovernors, yielded, stopAt)

IterateMaxGovernorsByGovernancePowerResult(stopAt) ==
    ScanMaxGovernors(Descending(DOMAIN powerIndex), 1, 0, <<>>, stopAt)

\* the loop of IterateGovernors going on after the callback asked to stop
RECURSIVE ScanGovernorsIgnoringStop(_, _, _, _, _)
ScanGovernorsIgnoringStop(addrs, pos, i, visited, stopAt) ==
    IF pos > Len(addrs)
    THEN [yielded |-> visited, outcome |-> "done"]
    ELSE LET governor == governors[addrs[pos]]
             out == Append(visited, [index |-> i, governor |-> governor])
         IN  ScanGovernorsIgnoringStop(addrs, pos + 1, i + 1, out, stopAt)

\* the loop of IterateGovernors from position pos of the record keys, i
\* being the index of the next callback
RECURSIVE ScanGovernors(_, _, _, _, _)
ScanGovernors(addrs, pos, i, visited, stopAt) ==
    IF pos > Len(addrs)
    THEN [yielded |-> visited, outcome |-> "done"]
    ELSE LET governor == governors[addrs[pos]]
             out == Append(visited, [index |-> i, governor |-> governor])
         IN  IF Callback(stopAt, i, governor)
             THEN [yielded |-> out, outcome |-> "stopped"]
             ELSE ScanGovernors(addrs, pos + 1, i + 1, out, stopAt)

\* IterateGovernors: KVStorePrefixIterator gives the record keys ascending
IterateGovernorsResult(stopAt) ==
    ScanGovernors(Ascending(DOMAIN governors), 1, 0, <<>>, stopAt)

\* GetAllGovernors: every record, in the order of the record keys
GetAllGovernors ==
    LET addrs == Ascending(DOMAIN governors)
    IN  [n \in 1 .. Len(addrs) |-> governors[addrs[n]]]

\* GetAllActiveGovernors: the records that are Active, in the same order
GetAllActiveGovernors == SelectSeq(GetAllGovernors, IsActive)

\* --------------------------------------------------------- governor query
\* a bech32 governor address: the prefix and the address it encodes
Bech32(a) == <<"govr", a>>

\* types.GovernorAddressFromBech32
GovernorAddressFromBech32(str) ==
    IF Len(str) = 2 /\ str[1] = "govr"
    THEN [err |-> FALSE, addr |-> str[2]]
    ELSE [err |-> TRUE, addr |-> NoAddr]

\* QueryGovernorRequest: nil, or a request with its GovernorAddress string
NilRequest == [nil |-> TRUE]
QueryGovernorRequests ==
    {NilRequest}
      \cup {[GovernorAddress |-> str] : str \in {<<>>, <<"x">>} \cup {Bech32(a) : a \in Addrs}}

\* Keeper.Governor(c, req): the status code and, with OK, the governor
GovernorQuery(req) ==
    IF req = NilRequest THEN [code |-> "InvalidArgument"]
    ELSE IF req.GovernorAddress = <<>> THEN [code |-> "InvalidArgument"]
    ELSE LET parsed == GovernorAddressFromBech32(req.GovernorAddress)
         IN  IF parsed.err THEN [code |-> "InvalidArgument"]
             ELSE LET got == GetGovernor(parsed.addr)
                  IN  IF ~got[2] THEN [code |-> "NotFound"]
                      ELSE [code |-> "OK", governor |-> got[1]]

\* ------------------------------------------------------------------ tally
\* math.Int.String(): the decimal digits, most significant first
DigitChar(d) ==
    CASE d = 0 -> "0" [] d = 1 -> "1" [] d = 2 -> "2" [] d = 3 -> "3"
      [] d = 4 -> "4" [] d = 5 -> "5" [] d = 6 -> "6" [] d = 7 -> "7"
      [] d = 8 -> "8" [] d = 9 -> "9"

RECURSIVE NatString(_)
NatString(n) ==
    IF n < 10 THEN <<DigitChar(n)>> ELSE Append(NatString(n \div 10), DigitChar(n % 10))

IntString(i) == IF i < 0 THEN <<"-">> \o NatString(0 - i) ELSE NatString(i)

\* the count fields NewTallyResult sets and Equals compares
TallyCounts == {"YesCount", "AbstainCount", "NoCount"}

\* NewTallyResult(yes, abstain, no)
NewTallyResult(yes, abstain, no) ==
    [YesCount |-> IntString(yes), AbstainCount |-> IntString(abstain),
     NoCount |-> IntString(no)]

\* the Dec totals of a tally (a voting power times a vote weight) are kept
\* as whole numbers of DecScale-ths
DecScale == 2

\* Dec.TruncateInt(): the integer part (the model's Decs are not negative)
TruncateInt(d) == d \div DecScale

\* NewTallyResultFromMap(results): results maps a vote option to a Dec
NewTallyResultFromMap(results) ==
    NewTallyResult(TruncateInt(results["Yes"]), TruncateInt(results["Abstain"]),
                   TruncateInt(results["No"]))

\* EmptyTallyResult(): math.ZeroInt() three times
EmptyTallyResult == NewTallyResult(0, 0, 0)

\* (tr TallyResult) Equals(comp TallyResult)
Equals(tr, comp) ==
    /\ tr.YesCount = comp.YesCount
    /\ tr.AbstainCount = comp.AbstainCount
    /\ tr.NoCount = comp.NoCount

\* ------------------------------------------------------------ environments
\* The staking oracle, the governance delegations and the params are read,
\* never written, by this code: Init fixes them.
Empty == [x \in {} |-> 0]

LowestAddr == CHOOSE a \in Addrs : \A b \in Addrs : a <= b
LowestVal == CHOOSE v \in Vals : \A w \in Vals : v <= w
OtherAddr(a) == CHOOSE b \in Addrs : b # a /\ \A c \in Addrs \ {a} : b <= c

\* every account delegates one share to the lowest validator, which has one
\* bonded token per share; every governor has its self-delegation
HealthyDelegation == [v \in Vals |-> IF v = LowestVal THEN NewDec(1) ELSE NewDec(0)]
HealthyValidators ==
    [v \in {LowestVal} |-> [bondedTokens |-> 1, delegatorShares |-> NewDec(1)]]

\* the lowest address deviates from the healthy environment in one way
Scenarios == {"healthy", "poor", "nodel", "otherdel", "zeroval"}
RawScenarios == {"healthy", "poor", "nodel"}
\* with the two raw addresses a larger MaxGovernors never ends a scan
RawMaxGovernors == {0, 1}

ScenarioEnv(kind, maxGovernors) ==
    /\ govDelegations =
         [a \in (IF kind = "nodel" THEN Addrs \ {LowestAddr} ELSE Addrs) |->
            IF kind = "otherdel" /\ a = LowestAddr THEN OtherAddr(a) ELSE a]
    /\ delegations =
         [a \in Addrs |->
            IF a # LowestAddr \/ kind \notin {"poor", "zeroval"} THEN HealthyDelegation
            ELSE IF kind = "poor" THEN [v \in Vals |-> NewDec(0)]
            ELSE [v \in Vals |-> NewDec(1)]]
    /\ validators = HealthyValidators
    /\ params = [MaxGovernors |-> maxGovernors, MinGovernorSelfDelegation |-> <<"1">>]
    /\ valShares = Empty
    /\ valSharesDeductions = Empty
    /\ votes = Empty
    /\ proposals = Empty

\* the host runs one state transition at a time and none is in flight
Serialized == exclusive = TRUE /\ running = Empty

ValidatorRecords ==
    [bondedTokens : 0 .. MaxTokens,
     delegatorShares : {NewDec(n) : n \in 0 .. MaxDelShares}]

PartialFunctions(D, R) == UNION {[S -> R] : S \in SUBSET D}

Init ==
    /\ governors = Empty
    /\ powerIndex = Empty
    /\ \E kind \in Scenarios, m \in 0 .. MaxMaxGovernors : ScenarioEnv(kind, m)
    /\ Serialized
    /\ ret = [op |-> "Init"]

InitRaw ==
    /\ governors = Empty
    /\ powerIndex = Empty
    /\ \E kind \in RawScenarios, m \in RawMaxGovernors : ScenarioEnv(kind, m)
    /\ Serialized
    /\ ret = [op |-> "Init"]

\* the inputs of the eligibility gate: every account has the same staking
\* delegations; how accounts delegate their governance is one of three ways
InitElig ==
    /\ governors = Empty
    /\ powerIndex = Empty
    /\ \E mode \in {"self", "none", "other"} :
         govDelegations =
           [a \in (IF mode = "none" THEN {} ELSE Addrs) |->
              IF mode = "other" THEN OtherAddr(a) ELSE a]
    /\ \E d \in [Vals -> {NewDec(n) : n \in 0 .. MaxShares}] :
         delegations = [a \in Addrs |-> d]
    /\ validators \in PartialFunctions(Vals, ValidatorRecords)
    /\ \E s \in MinStrings :
         params = [MaxGovernors |-> MaxMaxGovernors, MinGovernorSelfDelegation |-> s]
    /\ valShares = Empty
    /\ valSharesDeductions = Empty
    /\ votes = Empty
    /\ proposals = Empty
    /\ Serialized
    /\ ret = [op |-> "Init"]

\* the vote options a results map is keyed by
VoteOptions == {"Yes", "Abstain", "No", "NoWithVeto"}

\* the amounts the tally results are built from
Amounts == 0 .. MaxCount
TallyResults == {NewTallyResult(y, a, n) : y \in Amounts, a \in Amounts, n \in Amounts}

\* Decs of a results map: zero, a fraction, one, and ten and a fraction
ResultDecs == {0, 1, DecScale, 10 * DecScale + 1}

InitTallyResult ==
    /\ governors = Empty
    /\ powerIndex = Empty
    /\ ScenarioEnv("healthy", MaxMaxGovernors)
    /\ Serialized
    /\ ret = [op |-> "Init"]

\* ------------------------------------------------------------ tally engine
RECURSIVE SumOver(_, _)
SumOver(f, S) ==
    IF S = {} THEN 0
    ELSE LET x == CHOOSE y \in S : TRUE IN f[x] + SumOver(f, S \ {x})

\* a weighted vote: option -> weight in DecScale-ths, the weights summing to 1
WeightedVotes == {w \in [VoteOptions -> 0 .. DecScale] : SumOver(w, VoteOptions) = DecScale}

\* NewGovernorGovInfo(address, valShares, options, votingPower)
NewGovernorGovInfo(address, shares, options, votingPower) ==
    [Address |-> address,
     ValShares |-> [v \in DOMAIN shares |-> shares[v]],
     ValSharesDeductions |-> Empty,
     Vote |-> options,
     VotingPower |-> votingPower]

\* step 1: the GovernorGovInfo of a governor, its deductions recorded
GovernorInfo(a) ==
    LET info == NewGovernorGovInfo(a, valShares[a],
                                   IF a \in DOMAIN votes THEN votes[a] ELSE Empty,
                                   GetGovernor(a)[1].votingPower)
    IN  [info EXCEPT !.ValSharesDeductions =
           IF a \in DOMAIN valSharesDeductions THEN valSharesDeductions[a] ELSE Empty]

Deduction(info, v) ==
    IF v \in DOMAIN info.ValSharesDeductions THEN info.ValSharesDeductions[v] ELSE 0

\* the shares less the deduction, with no floor
EffectiveSharesUnfloored(info, v) == info.ValShares[v] - Deduction(info, v)

\* step 2: stored shares less the recorded deduction, floored at zero
EffectiveShares(info, v) ==
    IF Deduction(info, v) >= info.ValShares[v] THEN 0
    ELSE info.ValShares[v] - Deduction(info, v)

\* step 3: the effective shares projected to tokens, validator by validator.
\* A Dec is a sign and a magnitude, and its quotient is rounded and truncated
\* on the magnitude: shares below zero would project to the tokens of their
\* magnitude, negated.
EffectiveTokens(info, v) ==
    LET shares == EffectiveShares(info, v)
        bt == DelegationTokens(NewDec(IF shares < 0 THEN -shares ELSE shares), v)
    IN  IF ~bt.ok THEN 0 ELSE IF shares < 0 THEN -bt.tokens ELSE bt.tokens

EffectiveVotingPower(info) ==
    SumOver([v \in DOMAIN info.ValShares |-> EffectiveTokens(info, v)],
            DOMAIN info.ValShares)

\* the total of an option with the whole power of every governor that gave
\* the option any weight
OptionTotalUnweighted(o) ==
    SumOver([a \in DOMAIN valShares |->
               LET info == GovernorInfo(a)
               IN  IF info.Vote = Empty \/ info.Vote[o] = 0 THEN 0
                   ELSE EffectiveVotingPower(info) * DecScale],
            DOMAIN valShares)

\* steps 4 and 5: the Dec total of an option over the governors that voted
OptionTotal(o) ==
    SumOver([a \in DOMAIN valShares |->
               LET info == GovernorInfo(a)
               IN  IF info.Vote = Empty \/ info.Vote[o] = 0 THEN 0
                   ELSE EffectiveVotingPower(info) * info.Vote[o]],
            DOMAIN valShares)

TallyResultsMap == [o \in VoteOptions |-> OptionTotal(o)]

\* the validators of a tally: two tokens a share, and a token for two shares
TallyValidators ==
    [v \in Vals |-> IF v = LowestVal
                    THEN [bondedTokens |-> 2, delegatorShares |-> NewDec(1)]
                    ELSE [bondedTokens |-> 1, delegatorShares |-> NewDec(2)]]

\* the inputs of a tally: the lowest governor has shares with every
\* validator and may have deductions recorded, the other has shares with the
\* lowest validator; each is stored Active with the power of its shares
InitTally ==
    /\ \E s \in [Vals -> 0 .. MaxShares], x \in 0 .. MaxShares :
         valShares = [a \in RawAddrs |->
                        IF a = LowestAddr THEN s
                        ELSE [v \in Vals |-> IF v = LowestVal THEN x ELSE 0]]
    /\ validators = TallyValidators
    /\ governors =
         [a \in RawAddrs |->
            Governor(a, "Active",
                     SumOver([v \in Vals |->
                                DelegationTokens(NewDec(valShares[a][v]), v).tokens],
                             Vals))]
    /\ powerIndex =
         [k \in {GovernorsByPowerKey(a, governors[a].votingPower) : a \in RawAddrs} |-> k[2]]
    /\ valSharesDeductions \in
         PartialFunctions({LowestAddr}, [Vals -> 0 .. MaxDeduction])
    /\ votes \in PartialFunctions(RawAddrs, WeightedVotes)
    /\ proposals = Empty
    /\ govDelegations = [a \in Addrs |-> a]
    /\ delegations = [a \in Addrs |-> HealthyDelegation]
    /\ params = [MaxGovernors |-> MaxMaxGovernors, MinGovernorSelfDelegation |-> <<"1">>]
    /\ Serialized
    /\ ret = [op |-> "Init"]

\* ------------------------------------------------------- tally result query
ProposalStatuses ==
    {"Unspecified", "DepositPeriod", "VotingPeriod", "Passed", "Rejected", "Failed"}

\* the final tally results a proposal may have stored
FinalTallyResults == {EmptyTallyResult, NewTallyResult(1, 0, 1)}

Proposals == [Status : ProposalStatuses, FinalTallyResult : FinalTallyResults]

ProposalIds == {1, 2}

\* GetProposal(proposalID): <<proposal, ok>>
GetProposal(id) ==
    IF id \in DOMAIN proposals
    THEN <<proposals[id], TRUE>>
    ELSE <<[Status |-> "Unspecified", FinalTallyResult |-> EmptyTallyResult], FALSE>>

\* q.Tally(ctx, proposal): the tally of the votes the state holds
LiveTally == NewTallyResultFromMap(TallyResultsMap)

\* QueryTallyResultRequest: nil, or a request with its ProposalId
QueryTallyResultRequests ==
    {NilRequest} \cup {[ProposalId |-> id] : id \in {0} \cup ProposalIds}

\* the query tallying whatever the status of the proposal
TallyResultQueryAlwaysLive(req) ==
    IF req = NilRequest THEN [code |-> "InvalidArgument"]
    ELSE IF req.ProposalId = 0 THEN [code |-> "InvalidArgument"]
    ELSE LET got == GetProposal(req.ProposalId)
         IN  IF ~got[2] THEN [code |-> "NotFound"]
             ELSE [code |-> "OK", tally |-> LiveTally]

\* Keeper.TallyResult(c, req): the status code and, with OK, the tally
TallyResultQuery(req) ==
    IF req = NilRequest THEN [code |-> "InvalidArgument"]
    ELSE IF req.ProposalId = 0 THEN [code |-> "InvalidArgument"]
    ELSE LET got == GetProposal(req.ProposalId)
             proposal == got[1]
         IN  IF ~got[2] THEN [code |-> "NotFound"]
             ELSE IF proposal.Status = "DepositPeriod"
             THEN [code |-> "OK", tally |-> EmptyTallyResult]
             ELSE IF proposal.Status \in {"Passed", "Rejected", "Failed"}
             THEN [code |-> "OK", tally |-> proposal.FinalTallyResult]
             ELSE [code |-> "OK", tally |-> LiveTally]

\* the inputs of the query: the proposals stored, and the shares and the
\* vote of the lowest governor, which decide the live tally
InitTallyQuery ==
    /\ \E x \in 0 .. MaxShares :
         valShares = [a \in RawAddrs |->
                        [v \in Vals |-> IF a = LowestAddr /\ v = LowestVal THEN x ELSE 0]]
    /\ valSharesDeductions = Empty
    /\ votes \in PartialFunctions({LowestAddr}, WeightedVotes)
    /\ proposals \in PartialFunctions(ProposalIds, Proposals)
    /\ validators = TallyValidators
    /\ govDelegations = [a \in Addrs |-> a]
    /\ delegations = [a \in Addrs |-> HealthyDelegation]
    /\ params = [MaxGovernors |-> MaxMaxGovernors, MinGovernorSelfDelegation |-> <<"1">>]
    /\ governors = Empty
    /\ powerIndex = Empty
    /\ Serialized
    /\ ret = [op |-> "Init"]

\* ----------------------------------------------------------------- actions
SetGovernor(governor) ==
    /\ governors' = SetGovernorStore(governors, governor)
    /\ ret' = [op |-> "SetGovernor", governor |-> governor]
    /\ UNCHANGED <<powerIndex, env, host>>

SetGovernorByPowerIndex(governor) ==
    /\ powerIndex' = SetGovernorByPowerIndexStore(powerIndex, governor)
    /\ ret' = [op |-> "SetGovernorByPowerIndex"]
    /\ UNCHANGED <<governors, env, host>>

DeleteGovernorByPowerIndex(governor) ==
    /\ powerIndex' = DeleteGovernorByPowerIndexStore(powerIndex, governor)
    /\ ret' = [op |-> "DeleteGovernorByPowerIndex"]
    /\ UNCHANGED <<governors, env, host>>

UpdateGovernorByPowerIndex(governor) ==
    /\ powerIndex' = UpdatedPowerIndex(powerIndex, governor)
    /\ governors' = SetGovernorStore(governors, governor)
    /\ ret' = [op |-> "UpdateGovernorByPowerIndex", governor |-> governor]
    /\ UNCHANGED <<env, host>>

StopChoices == {NoStop} \cup (0 .. MaxMaxGovernors)

\* the scan dropping the index entries of the governors it does not find
\* Active
IterateMaxPruningIndex(stopAt) ==
    /\ ret' = [op |-> "IterateMaxGovernorsByGovernancePower", stopAt |-> stopAt,
               result |-> IterateMaxGovernorsByGovernancePowerResult(stopAt)]
    /\ powerIndex' =
         [k \in {x \in DOMAIN powerIndex : IsActive(GetGovernor(powerIndex[x])[1])} |->
            powerIndex[k]]
    /\ UNCHANGED <<governors, env, host>>

IterateMaxGovernorsByGovernancePower(stopAt) ==
    /\ ret' = [op |-> "IterateMaxGovernorsByGovernancePower", stopAt |-> stopAt,
               result |-> IterateMaxGovernorsByGovernancePowerResult(stopAt)]
    /\ UNCHANGED <<store, env, host>>

\* the voting power of the governor passed is not read
CallValidateGovernorMinSelfDelegation(governor) ==
    /\ ret' = [op |-> "ValidateGovernorMinSelfDelegation", governor |-> governor,
               result |-> ValidateGovernorMinSelfDelegation(governor)]
    /\ UNCHANGED <<store, env, host>>

CallGetGovernorBondedTokens(addr) ==
    /\ ret' = [op |-> "getGovernorBondedTokens", address |-> addr,
               result |-> getGovernorBondedTokens(addr)]
    /\ UNCHANGED <<store, env, host>>

IterateGovernors(stopAt) ==
    /\ ret' = [op |-> "IterateGovernors", stopAt |-> stopAt,
               result |-> IterateGovernorsResult(stopAt)]
    /\ UNCHANGED <<store, env, host>>

CallGetAllGovernors ==
    /\ ret' = [op |-> "GetAllGovernors", result |-> GetAllGovernors]
    /\ UNCHANGED <<store, env, host>>

CallGetAllActiveGovernors ==
    /\ ret' = [op |-> "GetAllActiveGovernors", result |-> GetAllActiveGovernors]
    /\ UNCHANGED <<store, env, host>>

CallGetGovernor(addr) ==
    /\ ret' = [op |-> "GetGovernor", address |-> addr, result |-> GetGovernor(addr)]
    /\ UNCHANGED <<store, env, host>>

QueryGovernor(req) ==
    /\ ret' = [op |-> "Governor", req |-> req, result |-> GovernorQuery(req)]
    /\ UNCHANGED <<store, env, host>>

\* the registry as its callers keep it: every change of a governor goes
\* through UpdateGovernorByPowerIndex, one call at a time
Next ==
    \/ \E g \in GovernorInputs(Addrs, Powers) : UpdateGovernorByPowerIndex(g)
    \/ \E stopAt \in StopChoices : IterateMaxGovernorsByGovernancePower(stopAt)
    \/ \E g \in GovernorInputs(Addrs, {0}) : CallValidateGovernorMinSelfDelegation(g)
    \/ \E a \in Addrs : CallGetGovernorBondedTokens(a)

Spec == Init /\ [][Next]_vars

\* the reads of the registry, between updates of it
InitRead ==
    /\ governors = Empty
    /\ powerIndex = Empty
    /\ \E kind \in RawScenarios, m \in 0 .. MaxMaxGovernors : ScenarioEnv(kind, m)
    /\ Serialized
    /\ ret = [op |-> "Init"]

NextRead ==
    \/ \E g \in GovernorInputs(Addrs, RawPowers) : UpdateGovernorByPowerIndex(g)
    \/ \E a \in Addrs : CallGetGovernor(a)
    \/ \E req \in QueryGovernorRequests : QueryGovernor(req)
    \/ \E stopAt \in StopChoices : IterateGovernors(stopAt)
    \/ \E stopAt \in StopChoices : IterateMaxGovernorsByGovernancePower(stopAt)
    \/ CallGetAllGovernors
    \/ CallGetAllActiveGovernors
    \/ \E g \in GovernorInputs(Addrs, {0}) : CallValidateGovernorMinSelfDelegation(g)

SpecRead == InitRead /\ [][NextRead]_vars

\* every mutating operation of the registry, called in any order
NextRaw ==
    \/ \E g \in GovernorInputs(RawAddrs, RawPowers) : SetGovernor(g)
    \/ \E g \in GovernorInputs(RawAddrs, RawPowers) : SetGovernorByPowerIndex(g)
    \/ \E g \in GovernorInputs(RawAddrs, RawPowers) : DeleteGovernorByPowerIndex(g)
    \/ \E g \in GovernorInputs(RawAddrs, RawPowers) : UpdateGovernorByPowerIndex(g)
    \/ \E stopAt \in StopChoices : IterateMaxGovernorsByGovernancePower(stopAt)

SpecRaw == InitRaw /\ [][NextRaw]_vars

\* the eligibility gate as a function of its inputs
NextElig ==
    \/ \E g \in GovernorInputs(Addrs, {0}) : CallValidateGovernorMinSelfDelegation(g)
    \/ \E a \in Addrs : CallGetGovernorBondedTokens(a)

SpecElig == InitElig /\ [][NextElig]_vars

\* the bonded tokens of accounts whose shares need not be whole: a share
\* amount is a whole number of shares or one unit of the last place less, a
\* validator has a whole number of delegator shares, no fewer than the shares
\* of an account in it
ShareAmounts ==
    {NewDec(0)} \cup {NewDec(k) : k \in 1 .. MaxWholeShares}
                \cup {BigSub(NewDec(k), <<1>>) : k \in 1 .. MaxWholeShares}

InitBonded ==
    /\ governors = Empty
    /\ powerIndex = Empty
    /\ govDelegations = [a \in Addrs |-> a]
    /\ \E d \in [Vals -> ShareAmounts] : delegations = [a \in Addrs |-> d]
    /\ validators \in
         [Vals -> [bondedTokens : 0 .. MaxTokens,
                   delegatorShares : {NewDec(k) : k \in 1 .. MaxWholeShares}]]
    /\ \A a \in Addrs, v \in Vals :
         BigLeq(delegations[a][v], validators[v].delegatorShares)
    /\ params = [MaxGovernors |-> MaxMaxGovernors, MinGovernorSelfDelegation |-> <<"1">>]
    /\ valShares = Empty
    /\ valSharesDeductions = Empty
    /\ votes = Empty
    /\ proposals = Empty
    /\ Serialized
    /\ ret = [op |-> "Init"]

NextBonded == \E a \in Addrs : CallGetGovernorBondedTokens(a)

SpecBonded == InitBonded /\ [][NextBonded]_vars

\* the constructors and the comparison of TallyResult
CallNewTallyResultFromMap(results) ==
    /\ ret' = [op |-> "NewTallyResultFromMap", results |-> results,
               result |-> NewTallyResultFromMap(results)]
    /\ UNCHANGED <<store, env, host>>

CallEmptyTallyResult ==
    /\ ret' = [op |-> "EmptyTallyResult", result |-> EmptyTallyResult,
               equalsItself |-> Equals(EmptyTallyResult, EmptyTallyResult)]
    /\ UNCHANGED <<store, env, host>>

CallEquals(tr, comp) ==
    /\ ret' = [op |-> "Equals", tr |-> tr, comp |-> comp, result |-> Equals(tr, comp)]
    /\ UNCHANGED <<store, env, host>>

NextTallyResult ==
    \/ \E results \in [VoteOptions -> ResultDecs] : CallNewTallyResultFromMap(results)
    \/ CallEmptyTallyResult
    \/ \E tr \in TallyResults, comp \in TallyResults : CallEquals(tr, comp)

SpecTallyResult == InitTallyResult /\ [][NextTallyResult]_vars

\* a tally run: what it derived for each governor and what it accumulated
Tally ==
    /\ LET results == TallyResultsMap
       IN  ret' = [op |-> "Tally",
                   effectiveShares |->
                     [a \in DOMAIN valShares |->
                        [v \in Vals |-> EffectiveShares(GovernorInfo(a), v)]],
                   votingPower |->
                     [a \in DOMAIN valShares |-> EffectiveVotingPower(GovernorInfo(a))],
                   results |-> results,
                   result |-> NewTallyResultFromMap(results)]
    /\ UNCHANGED <<store, env, host>>

NextTally == Tally

SpecTally == InitTally /\ [][NextTally]_vars

\* UpdateGovernorByPowerIndex statement by statement. Several executions may
\* be in flight; with exclusive access one starts only when none is.
Execs == {1, 2}

InitTorn ==
    /\ governors = Empty
    /\ powerIndex = Empty
    /\ ScenarioEnv("healthy", MaxMaxGovernors)
    /\ exclusive \in BOOLEAN
    /\ running = Empty
    /\ ret = [op |-> "Init"]

\* oldGovernor, _ := k.GetGovernor(ctx, governor.GetAddress())
ReadOldGovernor(e, governor) ==
    /\ e \notin DOMAIN running
    /\ exclusive => running = Empty
    /\ running' = StoreSet(running, e,
                           [pc |-> "delete", governor |-> governor,
                            oldGovernor |-> GetGovernor(governor.address)[1]])
    /\ UNCHANGED <<store, env, exclusive, ret>>

\* k.DeleteGovernorByPowerIndex(ctx, oldGovernor)
DeleteOldEntry(e) ==
    /\ e \in DOMAIN running
    /\ running[e].pc = "delete"
    /\ powerIndex' = DeleteGovernorByPowerIndexStore(powerIndex, running[e].oldGovernor)
    /\ running' = [running EXCEPT ![e].pc = "set"]
    /\ UNCHANGED <<governors, env, exclusive, ret>>

\* k.SetGovernorByPowerIndex(ctx, governor)
SetNewEntry(e) ==
    /\ e \in DOMAIN running
    /\ running[e].pc = "set"
    /\ powerIndex' = SetGovernorByPowerIndexStore(powerIndex, running[e].governor)
    /\ running' = [running EXCEPT ![e].pc = "persist"]
    /\ UNCHANGED <<governors, env, exclusive, ret>>

\* k.SetGovernor(ctx, governor), and the execution returns
PersistGovernor(e) ==
    /\ e \in DOMAIN running
    /\ running[e].pc = "persist"
    /\ governors' = SetGovernorStore(governors, running[e].governor)
    /\ running' = StoreDelete(running, e)
    /\ ret' = [op |-> "UpdateGovernorByPowerIndex", governor |-> running[e].governor]
    /\ UNCHANGED <<powerIndex, env, exclusive>>

NextTorn ==
    \/ \E e \in Execs, g \in GovernorInputs({LowestAddr}, RawPowers) : ReadOldGovernor(e, g)
    \/ \E e \in Execs : DeleteOldEntry(e)
    \/ \E e \in Execs : SetNewEntry(e)
    \/ \E e \in Execs : PersistGovernor(e)

SpecTorn == InitTorn /\ [][NextTorn]_vars

QueryTallyResult(req) ==
    /\ ret' = [op |-> "TallyResult", req |-> req, result |-> TallyResultQuery(req)]
    /\ UNCHANGED <<store, env, host>>

NextTallyQuery == \E req \in QueryTallyResultRequests : QueryTallyResult(req)

SpecTallyQuery == InitTallyQuery /\ [][NextTallyQuery]_vars

\* ================================================================== claims
\* the index entries whose value is the address a
EntriesOf(a) == {k \in DOMAIN powerIndex : powerIndex[k] = a}

\* the index holds the entry (votingPower(g), address(g)) of every stored
\* governor g and nothing else
IndexMatchesGovernors ==
    /\ DOMAIN powerIndex =
         {GovernorsByPowerKey(a, governors[a].votingPower) : a \in DOMAIN governors}
    /\ \A k \in DOMAIN powerIndex : powerIndex[k] = k[2]

\* C1 as stated: in every state reachable by any sequence of SetGovernor,
\* SetGovernorByPowerIndex, DeleteGovernorByPowerIndex and
\* UpdateGovernorByPowerIndex, the power index has exactly one entry for each
\* stored governor.
C1_OneEntryPerGovernorAlways ==
    \A a \in DOMAIN governors : Cardinality(EntriesOf(a)) = 1

\* C1 amended: the empty store has its index matching its governors, and an
\* UpdateGovernorByPowerIndex call made in a state whose index matches its
\* governors leaves the index matching them, with exactly one entry for each
\* stored governor.
C1_UpdateKeepsOneEntryPerGovernor ==
    /\ IndexMatchesGovernors
    /\ [][(IndexMatchesGovernors /\ ret'.op = "UpdateGovernorByPowerIndex")
            => /\ IndexMatchesGovernors'
               /\ \A a \in DOMAIN governors' :
                    Cardinality({k \in DOMAIN powerIndex' : powerIndex'[k] = a}) = 1]_vars

\* C1 witness: an update has left two governors of different power, each with
\* its one entry.
C1_Witness ==
    /\ ret.op = "UpdateGovernorByPowerIndex"
    /\ IndexMatchesGovernors
    /\ \E a, b \in DOMAIN governors : governors[a].votingPower < governors[b].votingPower
    /\ \A a \in DOMAIN governors : Cardinality(EntriesOf(a)) = 1

\* C2: after UpdateGovernorByPowerIndex(g) the stored record of g's address is
\* g, the index holds g's entry under g's new voting power, and a descending
\* scan meets every stored governor, meets g once, after every governor of
\* strictly larger power and before every governor of strictly smaller power.
C2_UpdatePlacesGovernor ==
    ret.op = "UpdateGovernorByPowerIndex" =>
      LET g == ret.governor
          key == GovernorsByPowerKey(g.address, g.votingPower)
          keys == Descending(DOMAIN powerIndex)
      IN  /\ GetGovernor(g.address) = <<g, TRUE>>
          /\ key \in DOMAIN powerIndex
          /\ powerIndex[key] = g.address
          /\ \A a \in DOMAIN governors :
               \E j \in 1 .. Len(keys) : powerIndex[keys[j]] = a
          /\ \E i \in 1 .. Len(keys) :
               /\ keys[i] = key
               /\ \A j \in (1 .. Len(keys)) \ {i} :
                    LET h == GetGovernor(powerIndex[keys[j]])[1]
                    IN  /\ powerIndex[keys[j]] # g.address
                        /\ h.votingPower > g.votingPower => j < i
                        /\ h.votingPower < g.votingPower => j > i

\* C2 witness: the updated governor sits between a stronger and a weaker one.
C2_Witness ==
    /\ ret.op = "UpdateGovernorByPowerIndex"
    /\ \E a, b \in DOMAIN governors :
         /\ governors[a].votingPower > ret.governor.votingPower
         /\ governors[b].votingPower < ret.governor.votingPower

IsIterateMax == ret.op = "IterateMaxGovernorsByGovernancePower"

\* C3: whatever the store and MaxGovernors, every governor passed to the
\* callback of IterateMaxGovernorsByGovernancePower is not Inactive and has
\* ValidateGovernorMinSelfDelegation true.
C3_NeverYieldsIneligible ==
    IsIterateMax =>
      \A i \in 1 .. Len(ret.result.yielded) :
        LET g == ret.result.yielded[i].governor
        IN  /\ g.status # "Inactive"
            /\ ValidateGovernorMinSelfDelegation(g) = "true"

\* C3 witness: a complete scan yielded a governor and passed over an index
\* entry of an Inactive governor or of one failing the validation.
C3_Witness ==
    /\ IsIterateMax
    /\ ret.stopAt = NoStop
    /\ ret.result.outcome = "done"
    /\ Len(ret.result.yielded) = 1
    /\ params.MaxGovernors >= 1
    /\ \E k \in DOMAIN powerIndex :
         LET h == GetGovernor(powerIndex[k])[1]
         IN  \/ h.status = "Inactive"
             \/ IsActive(h) /\ ValidateGovernorMinSelfDelegation(h) = "false"

\* C4 as stated: one call of IterateMaxGovernorsByGovernancePower invokes its
\* callback for at most MaxGovernors governors.
C4_AtMostMaxGovernors ==
    IsIterateMax => Len(ret.result.yielded) <= params.MaxGovernors

\* the stored governors that are active and pass the validation
StoredEligible == {a \in DOMAIN governors : Eligible(governors[a]) = "true"}

Minimum(a, b) == IF a <= b THEN a ELSE b

\* C5: when the callback never asks to stop, the governors are yielded in
\* non-increasing order of stored voting power, and a scan that returns has
\* yielded, once each, at least min(MaxGovernors, number of active eligible
\* governors) stored active eligible governors, none weaker than an active
\* eligible governor left out.
C5_YieldsTopByPower ==
    (IsIterateMax /\ ret.stopAt = NoStop) =>
      LET y == ret.result.yielded
      IN  /\ \A i \in 1 .. Len(y) - 1 :
               y[i].governor.votingPower >= y[i + 1].governor.votingPower
          /\ ret.result.outcome = "done" =>
               /\ Len(y) >= Minimum(params.MaxGovernors, Cardinality(StoredEligible))
               /\ \A i \in 1 .. Len(y) :
                    /\ y[i].governor.address \in StoredEligible
                    /\ y[i].governor = governors[y[i].governor.address]
                    /\ \A j \in 1 .. Len(y) :
                         y[j].governor.address = y[i].governor.address => j = i
               /\ \A a \in StoredEligible :
                    (\A i \in 1 .. Len(y) : y[i].governor.address # a) =>
                      \A i \in 1 .. Len(y) :
                        governors[a].votingPower <= y[i].governor.votingPower

\* C5 witness: MaxGovernors = 2 and three active eligible governors of powers
\* 2, 1 and 0: the first two yielded have powers 2 and 1.
C5_Witness ==
    /\ IsIterateMax
    /\ ret.stopAt = NoStop
    /\ ret.result.outcome = "done"
    /\ params.MaxGovernors = 2
    /\ Cardinality(StoredEligible) = 3
    /\ {governors[a].votingPower : a \in StoredEligible} = {0, 1, 2}
    /\ Len(ret.result.yielded) >= 2
    /\ ret.result.yielded[1].governor.votingPower = 2
    /\ ret.result.yielded[2].governor.votingPower = 1

IsValidate == ret.op = "ValidateGovernorMinSelfDelegation"
IsBondedTokens == ret.op = "getGovernorBondedTokens"

\* the governor's account has no governance delegation, or one to another
\* governor
NoSelfDelegation(g) ==
    \/ g.address \notin DOMAIN govDelegations
    \/ govDelegations[g.address] # g.address

\* the governor the scan resolves at position i of the key sequence
ScannedGovernor(keys, i) == GetGovernor(powerIndex[keys[i]])[1]

\* the scan gets to position i: nothing before it panics, and the governors
\* yielded before it neither exhaust MaxGovernors nor make the callback stop
ScanReaches(keys, i, stopAt) ==
    LET before == {j \in 1 .. i - 1 : Eligible(ScannedGovernor(keys, j)) = "true"}
    IN  /\ \A j \in 1 .. i - 1 : Eligible(ScannedGovernor(keys, j)) # "panic"
        /\ Cardinality(before) <= params.MaxGovernors
        /\ stopAt = NoStop \/ stopAt >= Cardinality(before)

\* C6: for an Active governor whose account has no governance delegation, or
\* one naming another governor, ValidateGovernorMinSelfDelegation panics and
\* returns neither true nor false, and IterateMaxGovernorsByGovernancePower
\* panics when its scan reaches such a governor.
C6_ActiveWithoutSelfDelegationPanics ==
    /\ \A g \in GovernorInputs(Addrs, Powers) :
         (IsActive(g) /\ NoSelfDelegation(g)) =>
           ValidateGovernorMinSelfDelegation(g) = "panic"
    /\ (IsValidate /\ IsActive(ret.governor) /\ NoSelfDelegation(ret.governor)) =>
         ret.result = "panic"
    /\ IsIterateMax =>
         LET keys == Descending(DOMAIN powerIndex)
         IN  \A i \in 1 .. Len(keys) :
               LET g == ScannedGovernor(keys, i)
               IN  (IsActive(g) /\ NoSelfDelegation(g) /\ ScanReaches(keys, i, ret.stopAt))
                     => ret.result.outcome = "panic"

\* C6 witness: a scan has yielded a governor and then panicked on an Active
\* governor that has no governance delegation.
C6_Witness ==
    /\ IsIterateMax
    /\ ret.result.outcome = "panic"
    /\ Len(ret.result.yielded) >= 1
    /\ \E a \in DOMAIN governors :
         /\ IsActive(governors[a])
         /\ a \notin DOMAIN govDelegations
         /\ getGovernorBondedTokens(a).ok

\* C7 as stated: for a governor that is not Active,
\* ValidateGovernorMinSelfDelegation returns false without aborting, whatever
\* its governance delegation and its staking delegations.
C7_InactiveReturnsFalse ==
    (IsValidate /\ ~IsActive(ret.governor)) => ret.result = "false"

\* the self-delegation is there and the threshold parses
ValidSelfDelegationAndThreshold(g) ==
    /\ ~NoSelfDelegation(g)
    /\ NewIntFromString(params.MinGovernorSelfDelegation).ok

\* C8: for an Active governor with a valid governance self-delegation and a
\* parsable threshold, ValidateGovernorMinSelfDelegation returns true exactly
\* when the governor's bonded tokens are >= MinGovernorSelfDelegation, and
\* false exactly when they are below it.
C8_TrueIffBondedAtLeastMinimum ==
    (IsValidate /\ IsActive(ret.governor) /\ ValidSelfDelegationAndThreshold(ret.governor)) =>
      LET bt == getGovernorBondedTokens(ret.governor.address)
          min == NewIntFromString(params.MinGovernorSelfDelegation).value
      IN  /\ ret.result = "true" <=> (bt.ok /\ bt.tokens >= min)
          /\ ret.result = "false" <=> (bt.ok /\ bt.tokens < min)

\* C8 witness: bonded tokens equal to a positive threshold are eligible.
C8_Witness ==
    /\ IsValidate
    /\ IsActive(ret.governor)
    /\ ValidSelfDelegationAndThreshold(ret.governor)
    /\ getGovernorBondedTokens(ret.governor.address).ok
    /\ getGovernorBondedTokens(ret.governor.address).tokens =
         NewIntFromString(params.MinGovernorSelfDelegation).value
    /\ NewIntFromString(params.MinGovernorSelfDelegation).value > 0
    /\ ret.result = "true"

\* the validators the account has shares in
ValidatorsOf(addr) == {v \in Vals : delegations[addr][v] # <<>>}

\* a validator that is missing or has no delegator shares
Unpriced(v) == v \notin DOMAIN validators \/ validators[v].delegatorShares = <<>>

\* the sum over the validators V of
\* floor(shares * bondedTokens / totalDelegatorShares), an unpriced validator
\* counting for zero
RECURSIVE FloorSum(_, _)
FloorSum(addr, V) ==
    IF V = {} THEN 0
    ELSE LET v == CHOOSE x \in V : TRUE
         IN  FloorSum(addr, V \ {v})
             + (IF Unpriced(v) THEN 0
                ELSE BigToInt(BigQuo(BigMulSmall(delegations[addr][v],
                                                 validators[v].bondedTokens),
                                     validators[v].delegatorShares)))

\* C9 as stated: the bonded tokens of every governor are the sum, over the
\* validators it has shares in, of
\* floor(shares * bondedTokens / totalDelegatorShares), each term truncated
\* before the sum.
C9_BondedTokensSumOfFloors ==
    (IsBondedTokens /\ \A v \in ValidatorsOf(ret.address) : ~Unpriced(v)) =>
      /\ ret.result.ok
      /\ ret.result.tokens = FloorSum(ret.address, ValidatorsOf(ret.address))

\* C10 as stated: a validator with zero total delegator shares, or one the
\* staking keeper does not know, contributes zero and the computation
\* completes.
C10_UnpricedValidatorContributesZero ==
    IsBondedTokens =>
      /\ ret.result.ok
      /\ ret.result.tokens = FloorSum(ret.address, ValidatorsOf(ret.address))

\* C11: when MinGovernorSelfDelegation does not parse as an integer,
\* ValidateGovernorMinSelfDelegation returns no verdict computed from a
\* defaulted threshold: it never returns true, it aborts for every Active
\* governor, and false is returned only to a governor that is not Active,
\* for which the threshold is not consulted.
C11_UnparsableThresholdGivesNoVerdict ==
    (IsValidate /\ ~NewIntFromString(params.MinGovernorSelfDelegation).ok) =>
      /\ ret.result # "true"
      /\ IsActive(ret.governor) => ret.result = "panic"
      /\ ret.result = "false" => ~IsActive(ret.governor)

\* C11 witness: an Active governor with a valid self-delegation and bonded
\* tokens that a threshold of zero would accept, checked against a threshold
\* that does not parse; the check aborts.
C11_Witness ==
    /\ IsValidate
    /\ ~NewIntFromString(params.MinGovernorSelfDelegation).ok
    /\ IsActive(ret.governor)
    /\ ~NoSelfDelegation(ret.governor)
    /\ getGovernorBondedTokens(ret.governor.address).ok
    /\ getGovernorBondedTokens(ret.governor.address).tokens > 0
    /\ ret.result = "panic"

\* C12: SetGovernor is an upsert keyed by the governor's address. After
\* SetGovernor(g), GetGovernor(g.address) returns (g, found) with every field
\* that of g, the address has exactly one record, the records of every other
\* address are the ones there were before, and the index is not touched.
C12_SetGovernorIsUpsert ==
    [][\A g \in GovernorInputs(RawAddrs, RawPowers) :
         (ret'.op = "SetGovernor" /\ ret'.governor = g) =>
           /\ GetGovernor(g.address)' = <<g, TRUE>>
           /\ DOMAIN governors' = DOMAIN governors \cup {g.address}
           /\ \A a \in DOMAIN governors' \ {g.address} : governors'[a] = governors[a]
           /\ powerIndex' = powerIndex]_vars

\* C12 witness: SetGovernor has replaced the record of an address whose
\* index entry still carries the power of the record before, and the other
\* address keeps its record.
C12_Witness ==
    /\ ret.op = "SetGovernor"
    /\ governors[ret.governor.address] = ret.governor
    /\ \E k \in EntriesOf(ret.governor.address) : k[1] # ret.governor.votingPower
    /\ \E a \in DOMAIN governors : a # ret.governor.address

\* the four counts the claims C13 and C14 name
FourCounts == {"YesCount", "AbstainCount", "NoCount", "NoWithVetoCount"}

\* C13 as stated: Equals(a, b) is true if and only if all four counts (yes,
\* abstain, no, no-with-veto) of a and b match exactly.
C13_EqualsIffFourCountsMatch ==
    ret.op = "Equals" =>
      (ret.result <=>
         \A f \in FourCounts :
           f \in DOMAIN ret.tr /\ f \in DOMAIN ret.comp /\ ret.tr[f] = ret.comp[f])

\* C14 as stated: EmptyTallyResult() equals itself under Equals and each of
\* its four counts (yes, abstain, no, no-with-veto) is the string "0".
C14_EmptyHasFourZeroCounts ==
    ret.op = "EmptyTallyResult" =>
      /\ ret.equalsItself
      /\ \A f \in FourCounts : f \in DOMAIN ret.result /\ ret.result[f] = <<"0">>

\* the deduction recorded for a (governor, validator) pair, zero if none
RecordedDeduction(a, v) ==
    IF a \in DOMAIN valSharesDeductions THEN valSharesDeductions[a][v] ELSE 0

Maximum(a, b) == IF a >= b THEN a ELSE b

\* C15: during a tally the effective shares of every (governor, validator)
\* pair are max(0, stored shares - recorded deduction), never negative also
\* when the deduction exceeds the stored shares, and the effective power of a
\* governor is the sum of floor(effective shares * bondedTokens /
\* totalDelegatorShares) over its validators.
C15_EffectiveSharesFlooredAtZero ==
    ret.op = "Tally" =>
      \A a \in DOMAIN valShares :
        /\ \A v \in Vals :
             /\ ret.effectiveShares[a][v] >= 0
             /\ ret.effectiveShares[a][v] =
                  Maximum(0, valShares[a][v] - RecordedDeduction(a, v))
        /\ ret.votingPower[a] =
             SumOver([v \in Vals |->
                        (Maximum(0, valShares[a][v] - RecordedDeduction(a, v))
                         * validators[v].bondedTokens)
                        \div DecTruncateInt(validators[v].delegatorShares)],
                     Vals)

\* C15 witness: the scenario of the claim at the scale of the model. Two
\* shares less a deduction of one with a validator of two tokens a share give
\* power two, and with the other validator the deduction exceeds the shares.
C15_Witness ==
    /\ ret.op = "Tally"
    /\ valShares[LowestAddr][LowestVal] = 2
    /\ RecordedDeduction(LowestAddr, LowestVal) = 1
    /\ validators[LowestVal] = [bondedTokens |-> 2, delegatorShares |-> NewDec(1)]
    /\ \E v \in Vals : RecordedDeduction(LowestAddr, v) > valShares[LowestAddr][v]
    /\ ret.votingPower[LowestAddr] = 2

\* C16: for every tally the counts, each the truncation of the accumulated
\* Dec total of its option, add up to no more than the total voting power of
\* the eligible governors; the TallyResult carries the yes, abstain and no
\* counts.
C16_CountsWithinTotalVotingPower ==
    ret.op = "Tally" =>
      /\ SumOver([o \in VoteOptions |-> TruncateInt(ret.results[o])], VoteOptions)
           <= SumOver(ret.votingPower, DOMAIN ret.votingPower)
      /\ ret.result = [YesCount |-> IntString(TruncateInt(ret.results["Yes"])),
                       AbstainCount |-> IntString(TruncateInt(ret.results["Abstain"])),
                       NoCount |-> IntString(TruncateInt(ret.results["No"]))]
      /\ \A o \in VoteOptions :
           ret.results[o] =
             SumOver([a \in DOMAIN votes |-> ret.votingPower[a] * votes[a][o]], DOMAIN votes)

\* C16 witness: both governors voted with split weights, the truncation
\* lost a fraction, and the counts add up to less than the total power.
C16_Witness ==
    /\ ret.op = "Tally"
    /\ DOMAIN votes = RawAddrs
    /\ \E o \in VoteOptions : ret.results[o] % DecScale # 0
    /\ SumOver([o \in VoteOptions |-> TruncateInt(ret.results[o])], VoteOptions)
         < SumOver(ret.votingPower, DOMAIN ret.votingPower)
    /\ SumOver([o \in VoteOptions |-> TruncateInt(ret.results[o])], VoteOptions) > 0

\* C17: reads signal absence as a value. GetGovernor on an address with no
\* stored record returns (empty governor, false), the Governor query on such
\* an address returns a NotFound error, and neither changes the store.
C17_AbsenceIsAValue ==
    [][\A a \in Addrs :
         /\ (ret'.op = "GetGovernor" /\ ret'.address = a /\ a \notin DOMAIN governors) =>
              /\ ret'.result = <<EmptyGovernor, FALSE>>
              /\ store' = store
         /\ (ret'.op = "Governor" /\ ret'.req = [GovernorAddress |-> Bech32(a)]
                /\ a \notin DOMAIN governors) =>
              /\ ret'.result = [code |-> "NotFound"]
              /\ store' = store]_vars

\* C17 witness: the Governor query has answered NotFound for an address
\* without a record while another governor is stored.
C17_Witness ==
    /\ ret.op = "Governor"
    /\ ret.result = [code |-> "NotFound"]
    /\ governors # Empty
    /\ \E a \in Addrs \ DOMAIN governors : ret.req = [GovernorAddress |-> Bech32(a)]

\* C18: with exclusive access, each execution of UpdateGovernorByPowerIndex
\* running its four steps (read old record, delete old index entry, set new
\* index entry, persist governor) with no other in between, no state between
\* executions has two index entries for the governor or a stale one: the
\* index holds exactly the entry of the stored record. Without exclusive
\* access such a state is reachable (C18_Witness).
C18_AtomicUpdatesLeaveNoTornIndex ==
    (exclusive /\ running = Empty) => IndexMatchesGovernors

\* C18 witness: two executions on the same governor have interleaved and
\* both returned; the governor has two index entries, one of them stale.
C18_Witness ==
    /\ ~exclusive
    /\ running = Empty
    /\ LowestAddr \in DOMAIN governors
    /\ Cardinality(EntriesOf(LowestAddr)) = 2
    /\ \E k \in EntriesOf(LowestAddr) : k[1] # governors[LowestAddr].votingPower

\* the positions before i whose governor the scan finds eligible
EligibleBefore(keys, i) ==
    {j \in 1 .. i - 1 : Eligible(ScannedGovernor(keys, j)) = "true"}

\* C19: in IterateMaxGovernorsByGovernancePower a governor that is inactive
\* or ineligible takes no slot. The index passed to the callback is the number
\* of governors yielded before in the call (0, 1, 2, ...), and an eligible
\* governor with fewer than MaxGovernors eligible governors before it is
\* yielded at that number, however many skipped governors precede it, unless
\* the callback stopped the scan or the scan panicked before.
C19_SkippedTakeNoSlot ==
    IsIterateMax =>
      LET keys == Descending(DOMAIN powerIndex)
          y == ret.result.yielded
      IN  /\ \A n \in 1 .. Len(y) : y[n].index = n - 1
          /\ \A i \in 1 .. Len(keys) :
               LET g == ScannedGovernor(keys, i)
                   before == Cardinality(EligibleBefore(keys, i))
               IN  (/\ Eligible(g) = "true"
                    /\ before < params.MaxGovernors
                    /\ ret.stopAt = NoStop \/ ret.stopAt >= before
                    /\ \A j \in 1 .. i - 1 : Eligible(ScannedGovernor(keys, j)) # "panic")
                   => /\ Len(y) > before
                      /\ y[before + 1] = [index |-> before, governor |-> g]

\* C19 witness: the scan yielded a governor at index 0, skipped a governor
\* that is not eligible, and yielded the next one at index 1.
C19_Witness ==
    /\ IsIterateMax
    /\ Len(ret.result.yielded) >= 2
    /\ ret.result.yielded[2].index = 1
    /\ LET keys == Descending(DOMAIN powerIndex)
       IN  \E i \in 1 .. Len(keys) :
             /\ Eligible(ScannedGovernor(keys, i)) = "false"
             /\ Cardinality(EligibleBefore(keys, i)) = 1
             /\ ScannedGovernor(keys, Len(keys)) = ret.result.yielded[2].governor
             /\ i < Len(keys)

IsIterateGovernors == ret.op = "IterateGovernors"

\* C20: in IterateGovernors and IterateMaxGovernorsByGovernancePower no
\* governor is passed to the callback after the call in which it returned
\* stop = true; while it returns false IterateGovernors visits every stored
\* governor exactly once, in ascending order of the address key, with the
\* indices 0, 1, 2, ...
C20_StopEndsTheIteration ==
    /\ (IsIterateMax \/ IsIterateGovernors) =>
         LET y == ret.result.yielded
         IN  /\ \A n \in 1 .. Len(y) :
                  Callback(ret.stopAt, y[n].index, y[n].governor) => n = Len(y)
             /\ ret.result.outcome = "stopped" <=>
                  (y # <<>> /\ Callback(ret.stopAt, y[Len(y)].index, y[Len(y)].governor))
    /\ IsIterateGovernors =>
         LET y == ret.result.yielded
             stopped == ret.result.outcome = "stopped"
         IN  /\ \A n \in 1 .. Len(y) :
                  /\ y[n].index = n - 1
                  /\ y[n].governor.address \in DOMAIN governors
                  /\ y[n].governor = governors[y[n].governor.address]
             /\ \A n \in 1 .. Len(y), m \in 1 .. Len(y) :
                  n < m => y[n].governor.address < y[m].governor.address
             /\ \A a \in DOMAIN governors :
                  \/ \E n \in 1 .. Len(y) : y[n].governor.address = a
                  \/ /\ stopped
                     /\ y[Len(y)].governor.address < a

\* C20 witness: with three governors stored, the callback of IterateGovernors
\* stopped at index 1 and the third governor was not visited.
C20_Witness ==
    /\ IsIterateGovernors
    /\ Cardinality(DOMAIN governors) = 3
    /\ ret.stopAt = 1
    /\ ret.result.outcome = "stopped"
    /\ Len(ret.result.yielded) = 2

\* C21: the TallyResult query answers by proposal status. Proposal id 0
\* gives InvalidArgument and an unknown id NotFound; a proposal in deposit
\* period gives the empty tally; one that is Passed, Rejected or Failed gives
\* its stored final tally result, whatever a tally of the current state would
\* be; any other status gives the tally computed from the current state.
C21_TallyResultByStatus ==
    (ret.op = "TallyResult" /\ ret.req # NilRequest) =>
      LET id == ret.req.ProposalId
      IN  /\ id = 0 => ret.result = [code |-> "InvalidArgument"]
          /\ (id # 0 /\ id \notin DOMAIN proposals) => ret.result = [code |-> "NotFound"]
          /\ id \in DOMAIN proposals =>
               /\ ret.result.code = "OK"
               /\ proposals[id].Status = "DepositPeriod" =>
                    ret.result.tally = NewTallyResult(0, 0, 0)
               /\ proposals[id].Status \in {"Passed", "Rejected", "Failed"} =>
                    ret.result.tally = proposals[id].FinalTallyResult
               /\ proposals[id].Status \in {"VotingPeriod", "Unspecified"} =>
                    ret.result.tally =
                      NewTallyResult(TruncateInt(OptionTotal("Yes")),
                                     TruncateInt(OptionTotal("Abstain")),
                                     TruncateInt(OptionTotal("No")))

\* C21 witness: a Passed proposal answered with its stored final tally
\* result while a tally of the current state is a different one.
C21_Witness ==
    /\ ret.op = "TallyResult"
    /\ ret.req # NilRequest
    /\ ret.req.ProposalId \in DOMAIN proposals
    /\ proposals[ret.req.ProposalId].Status = "Passed"
    /\ ret.result.tally = proposals[ret.req.ProposalId].FinalTallyResult
    /\ ret.result.tally # EmptyTallyResult
    /\ LiveTally # ret.result.tally
    /\ LiveTally # EmptyTallyResult

\* the scan and eligibility operations C22 names
ReadOps ==
    {"GetGovernor", "GetAllGovernors", "GetAllActiveGovernors", "IterateGovernors",
     "IterateMaxGovernorsByGovernancePower", "ValidateGovernorMinSelfDelegation"}

\* C22: GetGovernor, GetAllGovernors, GetAllActiveGovernors,
\* IterateGovernors, IterateMaxGovernorsByGovernancePower and
\* ValidateGovernorMinSelfDelegation leave the governor records, the index
\* entries, the governance delegations and the share entries as they were,
\* and a scan repeated on the state it leaves yields the same sequence.
C22_ReadsLeaveStateUnchanged ==
    /\ [][ret'.op \in ReadOps =>
            /\ governors' = governors
            /\ powerIndex' = powerIndex
            /\ govDelegations' = govDelegations
            /\ delegations' = delegations
            /\ valShares' = valShares]_vars
    /\ [](/\ IsIterateMax =>
              ret.result = IterateMaxGovernorsByGovernancePowerResult(ret.stopAt)
          /\ IsIterateGovernors => ret.result = IterateGovernorsResult(ret.stopAt)
          /\ ret.op = "GetAllGovernors" => ret.result = GetAllGovernors
          /\ ret.op = "GetAllActiveGovernors" => ret.result = GetAllActiveGovernors)

\* C22 witness: a scan has yielded a governor from a store that also holds a
\* governor that is not Active, whose index entry is still there.
C22_Witness ==
    /\ IsIterateMax
    /\ Len(ret.result.yielded) >= 1
    /\ \E a \in DOMAIN governors :
         /\ ~IsActive(governors[a])
         /\ GovernorsByPowerKey(a, governors[a].votingPower) \in DOMAIN powerIndex

\* C23: the order in which IterateMaxGovernorsByGovernancePower yields
\* governors is fixed by the stored index keys. Whatever the order in which
\* the governors were inserted and updated, the governors are yielded in
\* descending order of their (power, address) keys: two governors of equal
\* voting power always come in the same relative order, the higher address
\* first.
C23_OrderIsAFunctionOfKeys ==
    IsIterateMax =>
      LET y == ret.result.yielded
      IN  \A n \in 1 .. Len(y), m \in 1 .. Len(y) :
            n < m =>
              /\ y[n].governor.votingPower >= y[m].governor.votingPower
              /\ y[n].governor.votingPower = y[m].governor.votingPower =>
                   y[n].governor.address > y[m].governor.address

\* C23 witness: two governors of equal voting power yielded one after the
\* other, the higher address first.
C23_Witness ==
    /\ IsIterateMax
    /\ Len(ret.result.yielded) >= 2
    /\ ret.result.yielded[1].governor.votingPower =
         ret.result.yielded[2].governor.votingPower
    /\ ret.result.yielded[1].governor.address > ret.result.yielded[2].governor.address

\* C24: from the empty store, in every state reached by serialized
\* UpdateGovernorByPowerIndex calls the keys of the index are exactly the
\* (votingPower, address) pairs of the stored governors and every entry's value
\* is the address of a stored governor; a call for g whose address had no
\* record adds g's entry and nothing else, a call that keeps g's voting power
\* leaves the index as it was, and every call leaves the record of every other
\* address and every index entry of another address as they were.
C24_UpdatesKeepIndexExact ==
    /\ [](/\ Serialized
          /\ DOMAIN powerIndex =
               {<<governors[a].votingPower, a>> : a \in DOMAIN governors}
          /\ \A k \in DOMAIN powerIndex :
               powerIndex[k] \in DOMAIN governors /\ powerIndex[k] = k[2])
    /\ [][ret'.op = "UpdateGovernorByPowerIndex" =>
            LET g == ret'.governor
            IN  /\ \A a \in Addrs :
                     a # g.address =>
                       /\ GetGovernor(a)' = GetGovernor(a)
                       /\ {k \in DOMAIN powerIndex' : powerIndex'[k] = a} = EntriesOf(a)
                /\ \A k \in Powers \X Addrs :
                     k[2] # g.address =>
                       /\ k \in DOMAIN powerIndex' <=> k \in DOMAIN powerIndex
                       /\ k \in DOMAIN powerIndex => powerIndex'[k] = powerIndex[k]
                /\ g.address \notin DOMAIN governors =>
                     /\ <<g.votingPower, g.address>> \notin DOMAIN powerIndex
                     /\ DOMAIN powerIndex' =
                          DOMAIN powerIndex \cup {<<g.votingPower, g.address>>}
                /\ (/\ g.address \in DOMAIN governors
                    /\ governors[g.address].votingPower = g.votingPower) =>
                     powerIndex' = powerIndex]_vars

\* C24 witness: every address has had its first update, and the last call
\* stored an Inactive governor whose voting power another governor shares,
\* the index holding one entry for each of the three.
C24_Witness ==
    /\ ret.op = "UpdateGovernorByPowerIndex"
    /\ DOMAIN governors = Addrs
    /\ ret.governor.status = "Inactive"
    /\ governors[ret.governor.address] = ret.governor
    /\ \E a \in Addrs \ {ret.governor.address} :
         governors[a].votingPower = ret.governor.votingPower
    /\ Cardinality(DOMAIN powerIndex) = 3

\* a key sequence without its position i
RemoveAt(keys, i) ==
    [j \in 1 .. Len(keys) - 1 |-> IF j < i THEN keys[j] ELSE keys[j + 1]]

\* the positions of the descending scan whose entry names an address with no
\* stored record, or a governor whose stored record is Inactive
SkipPositions(keys) ==
    {i \in 1 .. Len(keys) :
       LET lookup == GetGovernor(powerIndex[keys[i]])
       IN  ~lookup[2] \/ lookup[1].status = "Inactive"}

\* C25: an index entry whose address has no stored record, or whose governor
\* is stored Inactive, is skipped by IterateMaxGovernorsByGovernancePower: the
\* callback is never invoked with the governor read for it, the call does not
\* panic unless the governor of another entry makes it panic, the indexes
\* handed to the callback stay 0, 1, 2, ... and the call's result is the one
\* it would have with that entry taken out of the index.
C25_OrphanAndInactiveEntriesSkipped ==
    IsIterateMax =>
      LET keys == Descending(DOMAIN powerIndex)
          y == ret.result.yielded
          skip == SkipPositions(keys)
      IN  /\ \A i \in skip :
               /\ \A n \in 1 .. Len(y) :
                    /\ y[n].governor # ScannedGovernor(keys, i)
                    /\ y[n].governor.address # powerIndex[keys[i]]
               /\ ret.result =
                    ScanMaxGovernors(RemoveAt(keys, i), 1, 0, <<>>, ret.stopAt)
          /\ (\A j \in (1 .. Len(keys)) \ skip :
                 Eligible(ScannedGovernor(keys, j)) # "panic")
               => ret.result.outcome # "panic"
          /\ \A n \in 1 .. Len(y) : y[n].index = n - 1
          /\ Len(y) = Cardinality({j \in (1 .. Len(keys)) \ skip :
                                     /\ Eligible(ScannedGovernor(keys, j)) = "true"
                                     /\ ScanReaches(keys, j, ret.stopAt)})

\* C25 witness: with MaxGovernors 0 the scan met an entry whose address has no
\* stored record, went on without panicking and handed the governor of a
\* later entry to the callback at index 0.
C25_Witness ==
    /\ IsIterateMax
    /\ params.MaxGovernors = 0
    /\ ret.result.outcome = "done"
    /\ Len(ret.result.yielded) = 1
    /\ ret.result.yielded[1].index = 0
    /\ LET keys == Descending(DOMAIN powerIndex)
       IN  \E i \in 1 .. Len(keys) - 1 :
             /\ ~GetGovernor(powerIndex[keys[i]])[2]
             /\ \E j \in i + 1 .. Len(keys) :
                  ScannedGovernor(keys, j) = ret.result.yielded[1].governor

====
